---------------------------- MODULE Spec2Model ----------------------------
(***************************************************************************)
(* A model of the PDF table extractor: the per-page pre-processing loop    *)
(* process_pdf_to_data (src/utils.py), the inference loop of main that      *)
(* names every detected table after its page (src/app.py), and             *)
(* merge_cross_page_tables (src/app.py).                                   *)
(*                                                                         *)
(* File names are sequences of one-character strings, so that formatting   *)
(* (f"{n:02d}") and parsing (replace, split, int) are computed, not        *)
(* assumed.  A CSV text is the sequence of its lines, each line the        *)
(* sequence of its fields; the empty text is the empty sequence.  The CSV   *)
(* texts of the model are rectangular with distinct, non-empty column      *)
(* names, so reading one and writing it back keeps its header and rows.    *)
(***************************************************************************)
EXTENDS Integers, Sequences, FiniteSets, TLC

VARIABLES
    \* ---- process_pdf_to_data ----
    doc_len,        \* len(doc)
    page_num,       \* the loop index of the page processed next (0-based)
    file_pairs,     \* the list the function returns
    img_files,      \* images/ directory: set of [path, page]
    words_files,    \* words/ directory: set of [path, page, words]
    char_count,     \* locals of the iteration that ran last
    n_images,
    use_ocr,
    mode_label,
    width,
    zoom,
    raw_words,
    words_data,
    engine,
    extract_err,
    pdf_pc,         \* "loop" | "returned" | "raised"
    \* ---- main: the inference loop ----
    total_pages,    \* len(file_pairs)
    page_i,         \* enumerate index i of the artifact processed next
    csv_results,
    final_results,
    main_pc,        \* "infer" | "export" | "done"
    \* ---- merge_cross_page_tables called on its own ----
    merge_in,
    merge_out,
    merge_again,
    merge_pc        \* "call" | "done" | "reapplied"

pdfVars == <<doc_len, page_num, file_pairs, img_files, words_files, char_count,
             n_images, use_ocr, mode_label, width, zoom, raw_words, words_data,
             engine, extract_err, pdf_pc>>
mainVars == <<total_pages, page_i, csv_results, final_results, main_pc>>
mergeVars == <<merge_in, merge_out, merge_again, merge_pc>>
vars == <<pdfVars, mainVars, mergeVars>>

-----------------------------------------------------------------------------
(* Text: characters, decimal formatting and parsing.                       *)

Digits == <<"0", "1", "2", "3", "4", "5", "6", "7", "8", "9">>

IsDigit(c) == \E d \in 1..10 : Digits[d] = c

DigitVal(c) == (CHOOSE d \in 1..10 : Digits[d] = c) - 1

\* str(n) for n >= 0
RECURSIVE Str(_)
Str(n) == IF n < 10 THEN <<Digits[n + 1]>>
          ELSE Str(n \div 10) \o <<Digits[(n % 10) + 1]>>

\* the format spec {n:0<w>d}: zero-padded to a minimum width, never cut
RECURSIVE ZeroPad(_, _)
ZeroPad(s, w) == IF Len(s) >= w THEN s ELSE ZeroPad(<<"0">> \o s, w)

\* Fmt02d as a field of exactly two digits: the leading ones are cut
Fmt02d_TwoDigitsOnly(n) ==
    SubSeq(ZeroPad(Str(n), 2), Len(ZeroPad(Str(n), 2)) - 1, Len(ZeroPad(Str(n), 2)))

Fmt02d(n) == ZeroPad(Str(n), 2)

Fmt03d(n) == ZeroPad(Str(n), 3)

\* int(s) succeeds on a non-empty run of decimal digits (the names of the
\* model hold no sign, blank or digit-separating underscore inside a field)
IsIntLiteral(s) == Len(s) > 0 /\ \A k \in 1..Len(s) : IsDigit(s[k])

RECURSIVE IntOf(_)
IntOf(s) == IF Len(s) = 0 THEN 0
            ELSE 10 * IntOf(SubSeq(s, 1, Len(s) - 1)) + DigitVal(s[Len(s)])

StartsWith(s, p) == Len(s) >= Len(p) /\ SubSeq(s, 1, Len(p)) = p

\* s.replace(old, ""): every non-overlapping occurrence, left to right
RECURSIVE Remove(_, _)
Remove(s, old) ==
    IF Len(s) = 0 THEN <<>>
    ELSE IF StartsWith(s, old) THEN Remove(SubSeq(s, Len(old) + 1, Len(s)), old)
    ELSE <<Head(s)>> \o Remove(Tail(s), old)

\* s.split(sep) for a one-character sep: always at least one (maybe empty) part
RECURSIVE Split(_, _)
Split(s, sep) ==
    IF Len(s) = 0 THEN << <<>> >>
    ELSE LET rest == Split(Tail(s), sep) IN
         IF Head(s) = sep THEN << <<>> >> \o rest
         ELSE << <<Head(s)>> \o Head(rest) >> \o Tail(rest)

DOT_CSV == <<".", "c", "s", "v">>
PAGE_PREFIX == <<"P", "a", "g", "e", "_">>
TABLE_PREFIX == <<"T", "a", "b", "l", "e", "_">>
UNDERSCORE == <<"_">>

-----------------------------------------------------------------------------
(* merge_cross_page_tables (src/app.py:46-83)                              *)

\* f"Page_{i+1:02d}_Table_{table_idx+1:02d}.csv"
TableFileName(i, table_idx) ==
    PAGE_PREFIX \o Fmt02d(i + 1) \o UNDERSCORE \o TABLE_PREFIX \o Fmt02d(table_idx + 1) \o DOT_CSV

\* parts = fname.replace('.csv', '').split('_')
NameParts(fname) == Split(Remove(fname, DOT_CSV), "_")

\* pd.read_csv raises EmptyDataError on a text without a header line
CsvReadable(content) == Len(content) > 0

\* pd.read_csv: the first line names the columns, the others are the rows
read_csv(content) == [columns |-> Head(content), rows |-> Tail(content)]

\* df.to_csv(index=False)
to_csv(df) == <<df.columns>> \o df.rows

\* the try block: parts[1] exists, int(parts[1]) and read_csv succeed
Parses(e) ==
    /\ Len(NameParts(e.fname)) >= 2
    /\ IsIntLiteral(NameParts(e.fname)[2])
    /\ CsvReadable(e.content)

ParseEntry(e) ==
    [fname |-> e.fname, page |-> IntOf(NameParts(e.fname)[2]), df |-> read_csv(e.content)]

\* ParseAll with the failure swallowed too late: an entry whose name does not
\* parse is kept, as page 0
RECURSIVE ParseAll_KeepsUnparsed(_)
ParseAll_KeepsUnparsed(csv) ==
    IF Len(csv) = 0 THEN <<>>
    ELSE IF Parses(Head(csv))
         THEN <<ParseEntry(Head(csv))>> \o ParseAll_KeepsUnparsed(Tail(csv))
    ELSE IF CsvReadable(Head(csv).content)
         THEN <<[fname |-> Head(csv).fname, page |-> 0, df |-> read_csv(Head(csv).content)]>>
              \o ParseAll_KeepsUnparsed(Tail(csv))
    ELSE ParseAll_KeepsUnparsed(Tail(csv))

\* step 1: entries that raise are passed over (except: pass)
RECURSIVE ParseAll(_)
ParseAll(csv) ==
    IF Len(csv) = 0 THEN <<>>
    ELSE IF Parses(Head(csv)) THEN <<ParseEntry(Head(csv))>> \o ParseAll(Tail(csv))
    ELSE ParseAll(Tail(csv))

\* InsertByPage with < for <=: entries of one page come out reversed
RECURSIVE InsertByPage_Unstable(_, _)
InsertByPage_Unstable(sorted, x) ==
    IF Len(sorted) = 0 THEN <<x>>
    ELSE IF Head(sorted).page < x.page
         THEN <<Head(sorted)>> \o InsertByPage_Unstable(Tail(sorted), x)
    ELSE <<x>> \o sorted

\* x goes behind every entry whose key is not greater: a stable insertion
RECURSIVE InsertByPage(_, _)
InsertByPage(sorted, x) ==
    IF Len(sorted) = 0 THEN <<x>>
    ELSE IF Head(sorted).page <= x.page
         THEN <<Head(sorted)>> \o InsertByPage(Tail(sorted), x)
    ELSE <<x>> \o sorted

\* tables_data.sort(key=lambda x: x['page']): list.sort is stable
RECURSIVE SortByPage(_)
SortByPage(td) ==
    IF Len(td) = 0 THEN <<>>
    ELSE InsertByPage(SortByPage(SubSeq(td, 1, Len(td) - 1)), td[Len(td)])

\* ShouldMerge without the page test
ShouldMerge_AnyPage(current, next_table) ==
    /\ Len(current.df.columns) = Len(next_table.df.columns)
    /\ current.df.columns = next_table.df.columns

\* is_consecutive and is_same_cols and headers_match
ShouldMerge(current, next_table) ==
    /\ next_table.page = current.page + 1
    /\ Len(current.df.columns) = Len(next_table.df.columns)
    /\ current.df.columns = next_table.df.columns

\* pd.concat([a, b], ignore_index=True) of two frames with the same columns
concat(a, b) == [columns |-> a.columns, rows |-> a.rows \o b.rows]

\* the while loop; k is i + 1 (sequences start at 1).  On a match the merged
\* frame is stored in tables_data[i], i moves on and the next iteration
\* reads current = tables_data[i] afresh.
RECURSIVE Sweep(_, _, _)
Sweep(tables_data, k, merged_results) ==
    IF k > Len(tables_data) THEN merged_results
    ELSE LET current == tables_data[k] IN
         IF k + 1 <= Len(tables_data) /\ ShouldMerge(current, tables_data[k + 1])
         THEN Sweep([tables_data EXCEPT ![k].df = concat(current.df, tables_data[k + 1].df)],
                    k + 1, merged_results)
         ELSE Sweep(tables_data, k + 1,
                    Append(merged_results,
                           [fname |-> current.fname, content |-> to_csv(current.df)]))

TablesData(csv) == SortByPage(ParseAll(csv))

merge_cross_page_tables(csv) ==
    IF Len(csv) = 0 THEN <<>> ELSE Sweep(TablesData(csv), 1, <<>>)


-----------------------------------------------------------------------------
(* process_pdf_to_data (src/utils.py:17-138)                               *)

MaxPages == 3

CHAR_THRESHOLD == 100
WIDTH_THRESHOLD == 1500

\* len(page.get_text()), len(page.get_images()), page.get_pixmap().width
CharCounts == {0, CHAR_THRESHOLD - 1, CHAR_THRESHOLD, CHAR_THRESHOLD + 1, 2 * CHAR_THRESHOLD}
ImageCounts == {0, 1, 2}
Widths == {WIDTH_THRESHOLD - 1, WIDTH_THRESHOLD, WIDTH_THRESHOLD + 1}

\* page.get_text("words"): tuples (x0, y0, x1, y1, text), or the call raises
NativeOutcomes ==
    { [ok |-> FALSE, words |-> <<>>],
      [ok |-> TRUE, words |-> <<>>],
      [ok |-> TRUE, words |-> << <<10, 20, 30, 40, <<"a">>>>, <<50, 20, 70, 40, <<"b">>>> >>] }

\* pytesseract.image_to_data(..., output_type=DICT), or the OCR block raises
\* before any word is read (Image.open, the enhancement, the engine)
OcrOutcomes ==
    { [ok |-> FALSE, text |-> <<>>, left |-> <<>>, top |-> <<>>, width |-> <<>>, height |-> <<>>],
      [ok |-> TRUE, text |-> <<>>, left |-> <<>>, top |-> <<>>, width |-> <<>>, height |-> <<>>],
      [ok |-> TRUE, text |-> << <<>>, <<" ", "a", " ">>, <<" ">>, <<"b">> >>,
       left |-> <<0, 5, 9, 40>>, top |-> <<0, 7, 7, 7>>,
       width |-> <<100, 20, 1, 20>>, height |-> <<100, 10, 10, 10>>] }

\* Classify with >= for >: a page of exactly 100 characters counts as text-rich
Classify_AtLeast(cc, has_images) ==
    IF cc >= CHAR_THRESHOLD /\ ~has_images
    THEN [use_ocr |-> FALSE, mode_label |-> "Native (Text)"]
    ELSE IF cc >= CHAR_THRESHOLD /\ has_images
    THEN [use_ocr |-> TRUE, mode_label |-> "OCR (Hybrid)"]
    ELSE [use_ocr |-> TRUE, mode_label |-> "OCR (Scanned)"]

\* B. Decision Logic
Classify(cc, has_images) ==
    IF cc > CHAR_THRESHOLD /\ ~has_images
    THEN [use_ocr |-> FALSE, mode_label |-> "Native (Text)"]
    ELSE IF cc > CHAR_THRESHOLD /\ has_images
    THEN [use_ocr |-> TRUE, mode_label |-> "OCR (Hybrid)"]
    ELSE [use_ocr |-> TRUE, mode_label |-> "OCR (Scanned)"]

\* SmartZoom with <= for <: a raster 1500 px wide is still enlarged
SmartZoom_AtMost(ocr, w) == IF ocr /\ w <= WIDTH_THRESHOLD THEN 2 ELSE 1

\* 2. Smart Zoom: the factor 2.0 or 1.0
SmartZoom(ocr, w) == IF ocr /\ w < WIDTH_THRESHOLD THEN 2 ELSE 1

\* PageImgName without the page number
PageImgName_NoNumber(n) == <<"p", "a", "g", "e">> \o <<".", "j", "p", "g">>

\* f"page_{page_num:03d}.jpg"
PageImgName(n) == <<"p", "a", "g", "e", "_">> \o Fmt03d(n) \o <<".", "j", "p", "g">>

\* f"page_{page_num:03d}_words.json"
PageWordsName(n) ==
    <<"p", "a", "g", "e", "_">> \o Fmt03d(n)
    \o <<"_", "w", "o", "r", "d", "s", ".", "j", "s", "o", "n">>

\* str.strip() of blanks
RECURSIVE LStrip(_)
LStrip(s) == IF Len(s) > 0 /\ Head(s) = " " THEN LStrip(Tail(s)) ELSE s

RECURSIVE RStrip(_)
RStrip(s) == IF Len(s) > 0 /\ s[Len(s)] = " " THEN RStrip(SubSeq(s, 1, Len(s) - 1)) ELSE s

Strip(s) == RStrip(LStrip(s))

\* === Native Mode ===: every coordinate times zoom
RECURSIVE NativeWords(_, _)
NativeWords(ws, z) ==
    IF Len(ws) = 0 THEN <<>>
    ELSE LET w == Head(ws) IN
         <<[bbox |-> <<w[1] * z, w[2] * z, w[3] * z, w[4] * z>>, text |-> w[5]]>>
         \o NativeWords(Tail(ws), z)

\* === OCR Mode ===: the loop over data['text'], from index k on
RECURSIVE OcrWords(_, _)
OcrWords(data, k) ==
    IF k > Len(data.text) THEN <<>>
    ELSE LET text == Strip(data.text[k])
             x == data.left[k]
             y == data.top[k]
             w == data.width[k]
             h == data.height[k]
         IN (IF Len(text) > 0
             THEN <<[text |-> text, bbox |-> <<x, y, x + w, y + h>>]>>
             ELSE <<>>)
            \o OcrWords(data, k + 1)

\* a file written under a path replaces the file that was there
WriteFile(dir, f) == {g \in dir : g.path # f.path} \cup {f}

InitPdf ==
    /\ doc_len \in 1..MaxPages
    /\ page_num = 0
    /\ file_pairs = <<>>
    /\ img_files = {}
    /\ words_files = {}
    /\ char_count = 0 /\ n_images = 0 /\ use_ocr = TRUE /\ mode_label = "OCR"
    /\ width = 0 /\ zoom = 1 /\ raw_words = <<>> /\ words_data = <<>>
    /\ engine = "none" /\ extract_err = "none"
    /\ pdf_pc = "loop"
    /\ total_pages = 0 /\ page_i = 0 /\ csv_results = <<>>
    /\ final_results = <<>> /\ main_pc = "idle"
    /\ merge_in = <<>> /\ merge_out = <<>> /\ merge_again = <<>> /\ merge_pc = "idle"

\* one iteration of `for page_num, page in enumerate(doc)`
ProcessPage ==
    /\ pdf_pc = "loop"
    /\ page_num < doc_len
    /\ \E cc \in CharCounts, ni \in ImageCounts, w \in Widths,
          nat \in NativeOutcomes, ocr \in OcrOutcomes :
         LET cls == Classify(cc, ni > 0)
             z == SmartZoom(cls.use_ocr, w)
             img_path == PageImgName(page_num)
             json_path == PageWordsName(page_num)
             wd == IF cls.use_ocr
                   THEN (IF ocr.ok THEN OcrWords(ocr, 1) ELSE <<>>)
                   ELSE NativeWords(nat.words, z)
         IN \* only the chosen extractor is called: the other one's outcome is
            \* not an input of this page
            /\ cls.use_ocr => nat = [ok |-> TRUE, words |-> <<>>]
            /\ ~cls.use_ocr => ocr.ok /\ ocr.text = <<>>
            /\ char_count' = cc
            /\ n_images' = ni
            /\ use_ocr' = cls.use_ocr
            /\ mode_label' = cls.mode_label
            /\ width' = w
            /\ zoom' = z
            /\ img_files' = WriteFile(img_files, [path |-> img_path, page |-> page_num])
            /\ engine' = IF cls.use_ocr THEN "ocr" ELSE "native"
            /\ raw_words' = nat.words
            /\ IF ~cls.use_ocr /\ ~nat.ok
               THEN \* page.get_text("words") raises outside any try block
                    /\ extract_err' = "native"
                    /\ words_data' = <<>>
                    /\ pdf_pc' = "raised"
                    /\ UNCHANGED <<words_files, file_pairs, page_num>>
               ELSE /\ extract_err' = IF cls.use_ocr /\ ~ocr.ok THEN "ocr" ELSE "none"
                    /\ words_data' = wd
                    /\ words_files' = WriteFile(words_files,
                                          [path |-> json_path, page |-> page_num, words |-> wd])
                    /\ file_pairs' = Append(file_pairs, [img |-> img_path, json |-> json_path])
                    /\ page_num' = page_num + 1
                    /\ pdf_pc' = "loop"
    /\ UNCHANGED <<doc_len, mainVars, mergeVars>>

\* return file_pairs
ReturnPairs ==
    /\ pdf_pc = "loop"
    /\ page_num = doc_len
    /\ pdf_pc' = "returned"
    /\ UNCHANGED <<doc_len, page_num, file_pairs, img_files, words_files, char_count,
                   n_images, use_ocr, mode_label, width, zoom, raw_words, words_data,
                   engine, extract_err, mainVars, mergeVars>>

NextPdf == ProcessPage \/ ReturnPairs

SpecPdf == InitPdf /\ [][NextPdf]_vars

-----------------------------------------------------------------------------
(* merge_cross_page_tables on its own: the inputs                          *)

MaxEntries == 3

HEADER_AB == <<"A", "B">>
HEADER_AC == <<"A", "C">>

\* CSV texts: two and three rows under A,B; one row under A,C; the empty text
CSV_AB2 == <<HEADER_AB, <<"1", "2">>, <<"3", "4">>>>
CSV_AB3 == <<HEADER_AB, <<"5", "6">>, <<"7", "8">>, <<"9", "10">>>>
CSV_AC1 == <<HEADER_AC, <<"11", "12">>>>
CSV_EMPTY == <<>>

\* Page_03_Table_01.csv, Page_04_Table_01.csv, Page_05_Table_01.csv
NAME_P3 == TableFileName(2, 0)
NAME_P4 == TableFileName(3, 0)
NAME_P5 == TableFileName(4, 0)
\* Page_Table_01.csv: the page number is missing
NAME_NO_NUMBER == PAGE_PREFIX \o TABLE_PREFIX \o Fmt02d(1) \o DOT_CSV
\* Table_01.csv: the Page_<NN> segment is missing
NAME_NO_PAGE == TABLE_PREFIX \o Fmt02d(1) \o DOT_CSV

\* every well-formed name with every readable text; each malformed name once;
\* one entry whose text cannot be read
InputEntries ==
    {[fname |-> n, content |-> c] : n \in {NAME_P3, NAME_P4, NAME_P5},
                                    c \in {CSV_AB2, CSV_AB3, CSV_AC1}}
    \cup {[fname |-> NAME_NO_NUMBER, content |-> CSV_AB2],
          [fname |-> NAME_NO_PAGE, content |-> CSV_AB2],
          [fname |-> NAME_P4, content |-> CSV_EMPTY]}

InputLists == UNION {[1..n -> InputEntries] : n \in 0..MaxEntries}

PdfIdle ==
    /\ doc_len = 0 /\ page_num = 0 /\ file_pairs = <<>>
    /\ img_files = {} /\ words_files = {}
    /\ char_count = 0 /\ n_images = 0 /\ use_ocr = TRUE /\ mode_label = "OCR"
    /\ width = 0 /\ zoom = 1 /\ raw_words = <<>> /\ words_data = <<>>
    /\ engine = "none" /\ extract_err = "none" /\ pdf_pc = "idle"

MainIdle ==
    /\ total_pages = 0 /\ page_i = 0 /\ csv_results = <<>>
    /\ final_results = <<>> /\ main_pc = "idle"

MergeIdle ==
    /\ merge_in = <<>> /\ merge_out = <<>> /\ merge_again = <<>> /\ merge_pc = "idle"

InitMerge ==
    /\ PdfIdle /\ MainIdle
    /\ merge_in \in InputLists
    /\ merge_out = <<>>
    /\ merge_again = <<>>
    /\ merge_pc = "call"

\* merged = merge_cross_page_tables(csv_results)
MergeCall ==
    /\ merge_pc = "call"
    /\ merge_out' = merge_cross_page_tables(merge_in)
    /\ merge_pc' = "done"
    /\ UNCHANGED <<merge_in, merge_again, pdfVars, mainVars>>

\* the returned list handed to merge_cross_page_tables once more
MergeReapply ==
    /\ merge_pc = "done"
    /\ merge_again' = merge_cross_page_tables(merge_out)
    /\ merge_pc' = "reapplied"
    /\ UNCHANGED <<merge_in, merge_out, pdfVars, mainVars>>

NextMerge == MergeCall \/ MergeReapply

SpecMerge == InitMerge /\ [][NextMerge]_vars

-----------------------------------------------------------------------------
(* main: the inference loop and the export (src/app.py:119-177)            *)

\* len(file_pairs): short documents and documents of more than 99 pages
DocLengths == {1, 2, 3, 100, 101}

\* the artifacts (0-based) on which the detection model may report tables
PagesWithTables == {0, 1, 98, 99, 100}

\* the CSV text the model returns for table table_idx of artifact i
DetectedCsv(i, table_idx) == <<HEADER_AB, <<ToString(i), ToString(table_idx)>>>>

\* pipe.extract(...) for artifact i: the try block raises, or returns tables;
\* csv says whether table['csv'] is there and table['csv'][0] is not empty
ExtractOutcomes(i) ==
    { [ok |-> FALSE, tables |-> <<>>], [ok |-> TRUE, tables |-> <<>>] }
    \cup (IF i \in PagesWithTables
          THEN { [ok |-> TRUE, tables |-> <<[csv |-> TRUE]>>],
                 [ok |-> TRUE, tables |-> <<[csv |-> FALSE], [csv |-> TRUE]>>],
                 [ok |-> TRUE, tables |-> <<[csv |-> TRUE], [csv |-> TRUE]>>] }
          ELSE {})

\* for table_idx, table in enumerate(extracted_tables), from table_idx on
RECURSIVE NamedTables(_, _, _)
NamedTables(i, tables, table_idx) ==
    IF table_idx >= Len(tables) THEN <<>>
    ELSE (IF tables[table_idx + 1].csv
          THEN <<[fname |-> TableFileName(i, table_idx),
                  content |-> DetectedCsv(i, table_idx)]>>
          ELSE <<>>)
         \o NamedTables(i, tables, table_idx + 1)

InitMain ==
    /\ PdfIdle /\ MergeIdle
    /\ total_pages \in DocLengths
    /\ page_i = 0
    /\ csv_results = <<>>
    /\ final_results = <<>>
    /\ main_pc = "infer"

\* one iteration of `for i, (img_path, json_path) in enumerate(file_pairs)`
InferPage ==
    /\ main_pc = "infer"
    /\ page_i < total_pages
    /\ \E out \in ExtractOutcomes(page_i) :
           csv_results' = csv_results \o NamedTables(page_i, out.tables, 0)
    /\ page_i' = page_i + 1
    /\ UNCHANGED <<total_pages, final_results, main_pc, pdfVars, mergeVars>>

\* Step 3: Export
Export ==
    /\ main_pc = "infer"
    /\ page_i = total_pages
    /\ final_results' = IF Len(csv_results) > 0
                        THEN merge_cross_page_tables(csv_results)
                        ELSE <<>>
    /\ main_pc' = "done"
    /\ UNCHANGED <<total_pages, page_i, csv_results, pdfVars, mergeVars>>

NextMain == InferPage \/ Export

SpecMain == InitMain /\ [][NextMain]_vars

-----------------------------------------------------------------------------
(* Claims about merge_cross_page_tables                                    *)

\* the page number the code reads from a name that parses
PageOf(e) == IntOf(NameParts(e.fname)[2])

HeaderOf(e) == Head(e.content)

RowsOf(e) == Tail(e.content)

Merged == merge_pc \in {"done", "reapplied"}

RECURSIVE SumRows(_)
SumRows(entries) ==
    IF Len(entries) = 0 THEN 0 ELSE Len(RowsOf(Head(entries))) + SumRows(Tail(entries))

RECURSIVE AllRows(_)
AllRows(entries) ==
    IF Len(entries) = 0 THEN <<>> ELSE RowsOf(Head(entries)) \o AllRows(Tail(entries))

ParseableEntries(csv) == SelectSeq(csv, Parses)

\* Page_<NN>_Table_<MM>.csv, NN and MM runs of digits
WellFormedName(fname) ==
    /\ Len(fname) > Len(DOT_CSV)
    /\ SubSeq(fname, Len(fname) - Len(DOT_CSV) + 1, Len(fname)) = DOT_CSV
    /\ LET parts == Split(SubSeq(fname, 1, Len(fname) - Len(DOT_CSV)), "_") IN
       /\ Len(parts) = 4
       /\ parts[1] = <<"P", "a", "g", "e">>
       /\ IsIntLiteral(parts[2])
       /\ parts[3] = <<"T", "a", "b", "l", "e">>
       /\ IsIntLiteral(parts[4])

\* the second "_"-separated field of the name without ".csv" is an integer
SecondFieldIsInt(fname) ==
    /\ Len(NameParts(fname)) >= 2
    /\ IsIntLiteral(NameParts(fname)[2])

WithoutEntry(csv, k) == SubSeq(csv, 1, k - 1) \o SubSeq(csv, k + 1, Len(csv))

OutputNames == {merge_out[k].fname : k \in 1..Len(merge_out)}

\* C1: two parseable fragments on pages p and p+1 with identical headers come
\* out as one table: the rows of page p followed by the rows of page p+1,
\* under the file name of the page-p fragment.
C1_ConsecutivePairIsMerged ==
    Merged =>
        \A a, b \in 1..Len(merge_in) :
            ( /\ Len(merge_in) = 2
              /\ a # b
              /\ Parses(merge_in[a]) /\ Parses(merge_in[b])
              /\ PageOf(merge_in[b]) = PageOf(merge_in[a]) + 1
              /\ HeaderOf(merge_in[a]) = HeaderOf(merge_in[b]) )
            => merge_out = << [fname |-> merge_in[a].fname,
                               content |-> <<HeaderOf(merge_in[a])>>
                                           \o RowsOf(merge_in[a]) \o RowsOf(merge_in[b])] >>

\* C2 as stated: an entry whose name is not of the form Page_<NN>_Table_<MM>.csv
\* gives no output its file name, and the output is that of the list without it.
C2_MalformedNameIsDropped ==
    Merged =>
        \A k \in 1..Len(merge_in) :
            ~WellFormedName(merge_in[k].fname)
            => /\ merge_in[k].fname \notin OutputNames
               /\ merge_out = merge_cross_page_tables(WithoutEntry(merge_in, k))

\* C2 (amended): an entry whose name, with ".csv" removed and split at "_", has
\* no second field or a second field that is not an integer gives no output its
\* file name, and the output is that of the list without it.
C2_UnparsedNameIsDropped ==
    Merged =>
        \A k \in 1..Len(merge_in) :
            ~SecondFieldIsInt(merge_in[k].fname)
            => /\ merge_in[k].fname \notin OutputNames
               /\ merge_out = merge_cross_page_tables(WithoutEntry(merge_in, k))

C2_Witness ==
    /\ merge_pc = "done"
    /\ Len(merge_in) = 3
    /\ merge_in[2].fname = NAME_NO_NUMBER
    /\ Parses(merge_in[1]) /\ Parses(merge_in[3])
    /\ Len(merge_out) = 2

\* C5: fragments that are not on strictly consecutive pages, or whose ordered
\* headers differ, are not combined: two such fragments come out as two tables,
\* each under its own name with its own rows; and in any list, a fragment
\* followed in page order by one it must not be merged with comes out as it
\* went in.
C5_NoMergeAcrossGapOrHeaders ==
    Merged =>
        /\ \A a, b \in 1..Len(merge_in) :
               ( /\ Len(merge_in) = 2
                 /\ a # b
                 /\ Parses(merge_in[a]) /\ Parses(merge_in[b])
                 /\ PageOf(merge_in[a]) < PageOf(merge_in[b])
                 /\ \/ PageOf(merge_in[b]) # PageOf(merge_in[a]) + 1
                    \/ HeaderOf(merge_in[a]) # HeaderOf(merge_in[b]) )
               => merge_out = <<merge_in[a], merge_in[b]>>
        /\ LET td == TablesData(merge_in) IN
           \A k \in 1..(Len(td) - 1) :
               ( \/ td[k + 1].page # td[k].page + 1
                 \/ td[k + 1].df.columns # td[k].df.columns )
               => \E o \in 1..Len(merge_out) :
                      /\ merge_out[o].fname = td[k].fname
                      /\ Tail(merge_out[o].content) = td[k].df.rows

C5_Witness ==
    /\ merge_pc = "done"
    /\ merge_in = << [fname |-> NAME_P5, content |-> CSV_AB3],
                     [fname |-> NAME_P3, content |-> CSV_AB2] >>
    /\ Len(merge_out) = 2

\* no two entries of the list lie on consecutive pages under the same headers
NothingToMerge(csv) ==
    /\ \A k \in 1..Len(csv) : Parses(csv[k])
    /\ \A a, b \in 1..Len(csv) :
           ~(PageOf(csv[b]) = PageOf(csv[a]) + 1 /\ HeaderOf(csv[a]) = HeaderOf(csv[b]))

\* out holds the entries of csv by ascending page, entries of one page in
\* their order in csv
IsStableSortByPage(out, csv) ==
    /\ Len(out) = Len(csv)
    /\ \E p \in [1..Len(csv) -> 1..Len(csv)] :
           /\ \A a, b \in 1..Len(csv) : a # b => p[a] # p[b]
           /\ \A k \in 1..Len(csv) : out[k] = csv[p[k]]
           /\ \A a, b \in 1..Len(csv) :
                  a < b => \/ PageOf(out[a]) < PageOf(out[b])
                           \/ PageOf(out[a]) = PageOf(out[b]) /\ p[a] < p[b]

\* C6: on a list of parseable fragments with nothing to merge, the result is
\* the input entries (same names, same rows) by ascending page, entries of one
\* page in their input order; merging the result again returns it unchanged.
C6_NothingToMergeIsSortOnly ==
    (Merged /\ NothingToMerge(merge_in)) =>
        /\ IsStableSortByPage(merge_out, merge_in)
        /\ merge_pc = "reapplied" => merge_again = merge_out

C6_Witness ==
    /\ merge_pc = "reapplied"
    /\ NothingToMerge(merge_in)
    /\ Len(merge_in) = 3
    /\ PageOf(merge_in[1]) = 5 /\ PageOf(merge_in[2]) = 3 /\ PageOf(merge_in[3]) = 3
    /\ merge_in[2] # merge_in[3]
    /\ merge_again = <<merge_in[2], merge_in[3], merge_in[1]>>

\* C10: no data row is lost or duplicated: the output holds as many data rows
\* as the parseable input fragments do, and a list that is one run of mergeable
\* fragments comes out as one table with the rows of all of them in page order.
C10_RowsArePreserved ==
    Merged =>
        /\ SumRows(merge_out) = SumRows(ParseableEntries(merge_in))
        /\ LET td == TablesData(merge_in) IN
           ( /\ Len(td) >= 1
             /\ \A k \in 1..(Len(td) - 1) :
                    /\ td[k + 1].page = td[k].page + 1
                    /\ td[k + 1].df.columns = td[k].df.columns )
           => /\ Len(merge_out) = 1
              /\ AllRows(merge_out) =
                     AllRows([k \in 1..Len(td) |-> [content |-> to_csv(td[k].df)]])

-----------------------------------------------------------------------------
(* Claims about process_pdf_to_data                                        *)

PageDone == engine # "none"

FilesAt(dir, path) == {f \in dir : f.path = path}

\* C3: a failure of token extraction on a page, in either mode, stays with
\* that page: the function does not raise, the page's pair is appended and
\* its word file holds no tokens, so the loop goes on to the later pages.
C3_ExtractionFailureIsContained ==
    (PageDone /\ extract_err # "none") =>
        /\ pdf_pc # "raised"
        /\ Len(file_pairs) = page_num
        /\ \A f \in FilesAt(words_files, file_pairs[page_num].json) : f.words = <<>>

\* C4: when the function returns, the list holds one pair per page in page
\* order: the i-th pair (from 0) names the image and the word file written for
\* page i.
C4_OnePairPerPageInOrder ==
    pdf_pc = "returned" =>
        /\ Len(file_pairs) = doc_len
        /\ \A i \in 0..(doc_len - 1) :
               /\ \E f \in img_files : f.path = file_pairs[i + 1].img
               /\ \A f \in FilesAt(img_files, file_pairs[i + 1].img) : f.page = i
               /\ \E f \in words_files : f.path = file_pairs[i + 1].json
               /\ \A f \in FilesAt(words_files, file_pairs[i + 1].json) : f.page = i

C4_Witness ==
    /\ pdf_pc = "returned"
    /\ doc_len = 3
    /\ Len(file_pairs) = 3
    /\ extract_err = "ocr"

\* C7: Native exactly when the text is longer than 100 characters and the page
\* has no image; OCR (Hybrid) exactly when it is longer than 100 and the page
\* has an image; OCR (Scanned) exactly when it is at most 100 long; and the
\* OCR extractor runs exactly when the mode is not Native.
C7_ModeDecision ==
    PageDone =>
        /\ (mode_label = "Native (Text)") <=> (char_count > 100 /\ n_images = 0)
        /\ (mode_label = "OCR (Hybrid)") <=> (char_count > 100 /\ n_images >= 1)
        /\ (mode_label = "OCR (Scanned)") <=> (char_count <= 100)
        /\ use_ocr <=> (mode_label # "Native (Text)")
        /\ (engine = "ocr") <=> (mode_label # "Native (Text)")
        /\ (engine = "native") <=> (mode_label = "Native (Text)")

C7_Witness ==
    /\ PageDone
    /\ char_count = 100
    /\ n_images = 0
    /\ mode_label = "OCR (Scanned)"
    /\ engine = "ocr"

\* C8: the rendering scale is 2 exactly when the mode needs OCR and the default
\* raster is narrower than 1500 px, and 1 otherwise; a Native page is rendered
\* at 1 and its word boxes are the text layer's boxes times 1.
C8_RenderingScale ==
    PageDone =>
        /\ (zoom = 2) <=> (use_ocr /\ width < 1500)
        /\ (zoom = 1) <=> ~(use_ocr /\ width < 1500)
        /\ (mode_label = "Native (Text)" /\ pdf_pc # "raised") =>
               /\ zoom = 1
               /\ Len(words_data) = Len(raw_words)
               /\ \A k \in 1..Len(raw_words) :
                      words_data[k].bbox = <<raw_words[k][1], raw_words[k][2],
                                             raw_words[k][3], raw_words[k][4]>>

C8_Witness ==
    /\ PageDone
    /\ use_ocr
    /\ width = 1500
    /\ zoom = 1

-----------------------------------------------------------------------------
(* Claims about the file names of main                                     *)

\* C9: every table emitted for the artifact at 0-based index i carries page
\* number i+1 in its name, whatever happened on earlier pages, and
\* merge_cross_page_tables reads exactly i+1 back from the name, also beyond
\* page 99; so the fragments sorted for merging stand in their true page order.
C9_PageNumberRoundTrip ==
    /\ \A k \in 1..Len(csv_results) :
           /\ Parses(csv_results[k])
           /\ PageOf(csv_results[k]) >= 1
           /\ PageOf(csv_results[k]) <= page_i
           /\ ToString(PageOf(csv_results[k]) - 1) = csv_results[k].content[2][1]
    /\ LET td == TablesData(csv_results) IN
       /\ Len(td) = Len(csv_results)
       /\ \A k \in 1..Len(td) :
              /\ td[k].fname = csv_results[k].fname
              /\ ToString(td[k].page - 1) = td[k].df.rows[1][1]

C9_Witness ==
    /\ main_pc = "done"
    /\ total_pages = 101
    /\ Len(csv_results) = 3
    /\ PageOf(csv_results[1]) = 99
    /\ PageOf(csv_results[2]) = 101
    /\ PageOf(csv_results[3]) = 101

=============================================================================
